---------------------------- MODULE Spec2Model ----------------------------
(***************************************************************************)
(* Paper-Port engine: the strategy simulator (backtest::run), the          *)
(* parameter-grid search (optimize::compute, generate_combinations) and    *)
(* the walk-forward validator (walk_forward::compute), as dispatched by    *)
(* main::handle_request.                                                   *)
(*                                                                         *)
(* Numbers.  The engine computes in f64.  Candle closes and the initial    *)
(* capital are small positive integers here, so nav, quantities and PnL    *)
(* are integers and exact in f64.  The moving averages are carried in      *)
(* fixed point (Scale units per price unit); ratios reported after round2  *)
(* are integers counting hundredths; a drawdown is the exact fraction      *)
(* num/den.  f64::NEG_INFINITY is the integer NegInf, below every finite   *)
(* value of the model.                                                     *)
(***************************************************************************)
EXTENDS Integers, Sequences, FiniteSets, TLC

(***************************************************************************)
(* Bounds of the model.                                                    *)
(***************************************************************************)
\* closes are drawn from 1..MaxPrice
MaxPrice == 3
\* number of consecutive bars of a series that are free to leave the base price
FreeLen == 3
\* the longest series handed to the simulator directly ("backtest" command)
MaxBtCandles == 33
\* the longest candidate list of a parameter grid
MaxValues == 2
\* the price of the bars that are not free
BasePrice == 2
\* the candle count of the walk-forward requests whose folds are long enough to trade
MaxWfCandles == 92
\* num_folds is asked as 1..MaxFoldsAsked, or left out
MaxFoldsAsked == 4
\* the candle count of the walk-forward requests of five folds over a constant price
ExampleCandles == 300
\* the returns of the short series handed to "risk" are -MaxReturn..MaxReturn hundredths
MaxReturn == 2
\* the length of the long return series whose returns are all gains
MaxRiskLen == 21

(***************************************************************************)
(* Program constants.                                                      *)
(***************************************************************************)
WarmUp == 21
ShortPeriod == 9
LongPeriod == 21
NotionalDiv == 10
MinCandles == 60
MinFoldSize == 20
MinInSample == 15
MinOutSample == 5
DefaultFolds == 5
MinFolds == 2
MaxFolds == 10
\* in_sample_ratio in percent: default 0.7, clamped to [0.5, 0.9]
DefaultRatio == 70
MinRatio == 50
MaxRatio == 90
NegInf == -1000000000
SentinelDrawdown == 10000
\* fixed-point resolution of the moving averages
Scale == 10000000
\* 4 * 100^2 * 252: round2(mean/std_dev * sqrt(252)) = h/100 iff
\* (2h-1)^2 <= FourAnnual * mean^2/variance < (2h+1)^2
FourAnnual == 10080000

VARIABLES
    command,        \* Request.command
    request,        \* Request.data, deserialized
    hash_order,     \* param_grid.keys(): the order this HashMap yields its keys
    twin,           \* a second request of the same command: its candles and key order
    pc,             \* "start", "loop" (inside backtest::run's loop), "done"
    idx,            \* the loop index i of backtest::run
    loop,           \* the loop's variables: nav, peak, max_dd, trades, equity_curve, position
    response,       \* the Response
    twin_response,  \* the Response to the second request
    replayed        \* the FoldResult whose in-sample segment is being simulated again

vars == <<command, request, hash_order, twin, pc, idx, loop, response, twin_response, replayed>>

None == <<>>
Some(x) == <<x>>

Max(a, b) == IF a >= b THEN a ELSE b
Min(a, b) == IF a <= b THEN a ELSE b
Abs(a) == IF a >= 0 THEN a ELSE -a

RECURSIVE SumSeq(_)
SumSeq(s) == IF s = <<>> THEN 0 ELSE s[1] + SumSeq(Tail(s))

\* f64 -> i64 cast of a quotient a/b (b > 0): truncation toward zero
TruncDiv(a, b) == IF a >= 0 THEN a \div b ELSE -((-a) \div b)

\* f64::round of a quotient a/b (b > 0): to nearest, halves away from zero
RoundDiv(a, b) == IF a >= 0 THEN (2 * a + b) \div (2 * b) ELSE -((2 * (-a) + b) \div (2 * b))

RECURSIVE IsqrtBits(_, _, _)
\* largest r with r*r <= n, found bit by bit from 2^b down
IsqrtBits(n, r, b) ==
    IF b < 0 THEN r
    ELSE LET c == r + 2 ^ b
         IN  IF c <= n \div c THEN IsqrtBits(n, c, b - 1) ELSE IsqrtBits(n, r, b - 1)

Isqrt(n) == IF n = 0 THEN 0 ELSE IsqrtBits(n, 0, 15)

\* floor(a * b / d) without forming a * b (a large, b and d small)
MulDiv(a, b, d) == (a \div d) * b + ((a % d) * b) \div d

(***************************************************************************)
(* backtest.rs                                                             *)
(***************************************************************************)
RECURSIVE EmaLoop(_, _, _, _)
EmaLoop(candles, k, ema_val, period) ==
    IF k > Len(candles) THEN ema_val
    ELSE EmaLoop(candles, k + 1,
                 ((candles[k].close * Scale - ema_val) * 2) \div (period + 1) + ema_val,
                 period)

ema(candles, period) ==
    IF Len(candles) < period THEN 0
    ELSE EmaLoop(candles, Len(candles) - period + 2,
                 candles[Len(candles) - period + 1].close * Scale, period)

\* a dispatch that takes every identifier for the moving-average strategy
RecognizedAny(strategy) == TRUE

Recognized(strategy) == strategy \in {"ema-crossover", "supertrend"}

\* a position of ten times the nav
QuantityTenfold(nav, price) == TruncDiv(nav * NotionalDiv, price)

\* (nav * 0.1 / price) as i64
Quantity(nav, price) == TruncDiv(nav, NotionalDiv * price)

\* the loop state before the first candle
RunInit(config) ==
    [nav |-> config.initial_capital,
     peak |-> config.initial_capital,
     max_dd |-> [num |-> 0, den |-> 1],
     trades |-> <<>>,
     equity_curve |-> <<>>,
     position |-> None]

\* a strategy that opens a position at any decided bar at which it holds none
DecideEnterWhenFlat(config, st, i) ==
    LET candle == config.candles[i + 1]
    IN  IF Recognized(config.strategy) /\ i >= WarmUp
        THEN LET ema_short == ema(SubSeq(config.candles, 1, i + 1), ShortPeriod)
                 ema_long == ema(SubSeq(config.candles, 1, i + 1), LongPeriod)
             IN  IF st.position = None
                 THEN IF Quantity(st.nav, candle.close) > 0
                      THEN [st EXCEPT !.position =
                               Some([entry_price |-> candle.close,
                                     entry_time |-> candle.timestamp])]
                      ELSE st
                 ELSE IF st.position # None /\ ema_short < ema_long
                 THEN LET entry == st.position[1]
                          qty == Quantity(st.nav, entry.entry_price)
                          pnl == (candle.close - entry.entry_price) * qty
                      IN  [st EXCEPT !.nav = st.nav + pnl,
                                     !.trades = Append(st.trades,
                                         [entry_price |-> entry.entry_price,
                                          exit_price |-> candle.close,
                                          qty |-> qty,
                                          pnl |-> pnl,
                                          entry_time |-> entry.entry_time,
                                          exit_time |-> candle.timestamp]),
                                     !.position = None]
                 ELSE st
        ELSE st

\* a strategy that sizes the closing order on the exit bar's close
DecideSizedAtExit(config, st, i) ==
    LET candle == config.candles[i + 1]
    IN  IF Recognized(config.strategy) /\ i >= WarmUp
        THEN LET ema_short == ema(SubSeq(config.candles, 1, i + 1), ShortPeriod)
                 ema_long == ema(SubSeq(config.candles, 1, i + 1), LongPeriod)
             IN  IF st.position = None /\ ema_short > ema_long
                 THEN IF Quantity(st.nav, candle.close) > 0
                      THEN [st EXCEPT !.position =
                               Some([entry_price |-> candle.close,
                                     entry_time |-> candle.timestamp])]
                      ELSE st
                 ELSE IF st.position # None /\ ema_short < ema_long
                 THEN LET entry == st.position[1]
                          qty == Quantity(st.nav, candle.close)
                          pnl == (candle.close - entry.entry_price) * qty
                      IN  [st EXCEPT !.nav = st.nav + pnl,
                                     !.trades = Append(st.trades,
                                         [entry_price |-> entry.entry_price,
                                          exit_price |-> candle.close,
                                          qty |-> qty,
                                          pnl |-> pnl,
                                          entry_time |-> entry.entry_time,
                                          exit_time |-> candle.timestamp]),
                                     !.position = None]
                 ELSE st
        ELSE st

\* a strategy that puts the closed trade at the head of the log
DecidePrepending(config, st, i) ==
    LET candle == config.candles[i + 1]
    IN  IF Recognized(config.strategy) /\ i >= WarmUp
        THEN LET ema_short == ema(SubSeq(config.candles, 1, i + 1), ShortPeriod)
                 ema_long == ema(SubSeq(config.candles, 1, i + 1), LongPeriod)
             IN  IF st.position = None /\ ema_short > ema_long
                 THEN IF Quantity(st.nav, candle.close) > 0
                      THEN [st EXCEPT !.position =
                               Some([entry_price |-> candle.close,
                                     entry_time |-> candle.timestamp])]
                      ELSE st
                 ELSE IF st.position # None /\ ema_short < ema_long
                 THEN LET entry == st.position[1]
                          qty == Quantity(st.nav, entry.entry_price)
                          pnl == (candle.close - entry.entry_price) * qty
                      IN  [st EXCEPT !.nav = st.nav + pnl,
                                     !.trades = <<[entry_price |-> entry.entry_price,
                                                   exit_price |-> candle.close,
                                                   qty |-> qty,
                                                   pnl |-> pnl,
                                                   entry_time |-> entry.entry_time,
                                                   exit_time |-> candle.timestamp]>>
                                                \o st.trades,
                                     !.position = None]
                 ELSE st
        ELSE st

\* the strategy's decision at candle index i (0-based), lines 81-113
Decide(config, st, i) ==
    LET candle == config.candles[i + 1]
    IN  IF Recognized(config.strategy) /\ i >= WarmUp
        THEN LET ema_short == ema(SubSeq(config.candles, 1, i + 1), ShortPeriod)
                 ema_long == ema(SubSeq(config.candles, 1, i + 1), LongPeriod)
             IN  IF st.position = None /\ ema_short > ema_long
                 THEN IF Quantity(st.nav, candle.close) > 0
                      THEN [st EXCEPT !.position =
                               Some([entry_price |-> candle.close,
                                     entry_time |-> candle.timestamp])]
                      ELSE st
                 ELSE IF st.position # None /\ ema_short < ema_long
                 THEN LET entry == st.position[1]
                          qty == Quantity(st.nav, entry.entry_price)
                          pnl == (candle.close - entry.entry_price) * qty
                      IN  [st EXCEPT !.nav = st.nav + pnl,
                                     !.trades = Append(st.trades,
                                         [entry_price |-> entry.entry_price,
                                          exit_price |-> candle.close,
                                          qty |-> qty,
                                          pnl |-> pnl,
                                          entry_time |-> entry.entry_time,
                                          exit_time |-> candle.timestamp]),
                                     !.position = None]
                 ELSE st
        ELSE st

\* a peak that follows the nav down
TrackNavAsPeak(st) ==
    LET dd == [num |-> st.nav - st.nav, den |-> st.nav]
    IN  [st EXCEPT !.peak = st.nav,
                   !.max_dd = IF dd.num * st.max_dd.den > st.max_dd.num * dd.den
                              THEN dd ELSE st.max_dd]

\* bookkeeping that charges the nav one unit for every bar a position is held
TrackCharging(st) ==
    LET nav == IF st.position # None THEN st.nav - 1 ELSE st.nav
        peak == IF nav > st.peak THEN nav ELSE st.peak
        dd == [num |-> peak - nav, den |-> peak]
    IN  [st EXCEPT !.nav = nav,
                   !.peak = peak,
                   !.max_dd = IF dd.num * st.max_dd.den > st.max_dd.num * dd.den
                              THEN dd ELSE st.max_dd]

\* peak and drawdown bookkeeping at the end of an iteration, lines 115-117
Track(st) ==
    LET peak == IF st.nav > st.peak THEN st.nav ELSE st.peak
        dd == [num |-> peak - st.nav, den |-> peak]
    IN  [st EXCEPT !.peak = peak,
                   !.max_dd = IF dd.num * st.max_dd.den > st.max_dd.num * dd.den
                              THEN dd ELSE st.max_dd]

\* a step of the loop that records no EquityPoint
RunStepNoPush(config, st, i) == Track(Decide(config, st, i))

\* one iteration of the loop over the candles, lines 75-118
RunStep(config, st, i) ==
    LET pushed == [st EXCEPT !.equity_curve =
                       Append(st.equity_curve,
                              [date |-> config.candles[i + 1].timestamp, nav |-> st.nav])]
    IN  Track(Decide(config, pushed, i))

RECURSIVE RunLoop(_, _, _, _), RunFrom(_, _, _, _)
\* the iterations lo <= i < hi of the loop, in order: the first half, then the
\* second from the state the first leaves (halving keeps the evaluation shallow)
RunLoop(config, st, lo, hi) ==
    IF lo >= hi THEN st
    ELSE IF hi = lo + 1 THEN RunStep(config, st, lo)
    ELSE RunFrom(config, RunLoop(config, st, lo, (lo + hi) \div 2), (lo + hi) \div 2, hi)

\* the iterations mid <= i < hi, from the state st that the earlier ones left
RunFrom(config, st, mid, hi) ==
    IF st.nav = st.nav THEN RunLoop(config, st, mid, hi) ELSE st

Pnls(trades) == [k \in 1..Len(trades) |-> trades[k].pnl]

IsWin(p) == p > 0
IsLoss(p) == p < 0
\* the winning PnLs and the losing PnLs, lines 120-121
Wins(pnls) == SelectSeq(pnls, IsWin)
Losses(pnls) == SelectSeq(pnls, IsLoss)

\* round2(sharpe) in hundredths, lines 130-136 and 151.  With S the sum and Q
\* the sum of squares of the n PnLs, mean/std_dev = S / sqrt(n*Q - S*S); the
\* initial capital cancels.
SharpeRatio(pnls) ==
    LET n == Len(pnls)
        S == SumSeq(pnls)
        Q == SumSeq([k \in 1..n |-> pnls[k] * pnls[k]])
        D == n * Q - S * S
    IN  IF n < 2 \/ D = 0 THEN 0
        ELSE LET h == (Isqrt(MulDiv(FourAnnual, S * S, D)) + 1) \div 2
             IN  IF S >= 0 THEN h ELSE -h

\* round2(sortino) in hundredths, lines 138-142 and 152.  With S the sum of the
\* n PnLs and Q the sum of squares of the m negative ones,
\* mean/sqrt(down_var) = S * sqrt(m) / (n * sqrt(Q)).
SortinoRatio(pnls) ==
    LET n == Len(pnls)
        neg == Losses(pnls)
        m == Len(neg)
        S == SumSeq(pnls)
        Q == SumSeq([k \in 1..m |-> neg[k] * neg[k]])
    IN  IF m = 0 THEN 0
        ELSE LET h == (Isqrt(MulDiv(FourAnnual, S * S * m, n * n * Q)) + 1) \div 2
             IN  IF S >= 0 THEN h ELSE -h

\* round2(win_rate) in hundredths of a percent, lines 123 and 153
WinRate(pnls) ==
    IF pnls = <<>> THEN 0 ELSE RoundDiv(Len(Wins(pnls)) * 10000, Len(pnls))

\* round2(profit_factor) in hundredths, lines 124-126 and 154
ProfitFactor(pnls) ==
    LET total_wins == SumSeq(Wins(pnls))
        total_losses == -SumSeq(Losses(pnls))
    IN  IF total_losses > 0 THEN RoundDiv(100 * total_wins, total_losses) ELSE 0

\* round2(max_dd * 100.0) in hundredths of a percent, line 150
MaxDrawdownPct(max_dd) == RoundDiv(max_dd.num * 10000, max_dd.den)

\* the report built after the loop, lines 120-160 (cagr, avg_win and avg_loss
\* are not modelled)
Report(st) ==
    [max_drawdown |-> MaxDrawdownPct(st.max_dd),
     sharpe_ratio |-> SharpeRatio(Pnls(st.trades)),
     sortino_ratio |-> SortinoRatio(Pnls(st.trades)),
     win_rate |-> WinRate(Pnls(st.trades)),
     profit_factor |-> ProfitFactor(Pnls(st.trades)),
     total_trades |-> Len(st.trades),
     equity_curve |-> st.equity_curve,
     trade_log |-> st.trades]

\* the report of an empty candle series, lines 60-66
EmptyReport ==
    [max_drawdown |-> 0, sharpe_ratio |-> 0, sortino_ratio |-> 0, win_rate |-> 0,
     profit_factor |-> 0,
     total_trades |-> 0, equity_curve |-> <<>>, trade_log |-> <<>>]

Ok(v) == [ok |-> TRUE, value |-> v]
Err(e) == [ok |-> FALSE, error |-> e]

\* backtest::run, lines 56-163.  data.valid tells whether the value
\* deserializes into a BacktestConfig (line 57).
run(data) ==
    IF ~data.valid THEN Err("Invalid backtest config")
    ELSE IF data.candles = <<>> THEN Ok(EmptyReport)
    ELSE Ok(Report(RunLoop(data, RunInit(data), 0, Len(data.candles))))

(***************************************************************************)
(* optimize.rs                                                             *)
(***************************************************************************)
Range(s) == {s[k] : k \in 1..Len(s)}

\* the position of key k in the key vector
KeyIndex(keys, k) == CHOOSE i \in 1..Len(keys) : keys[i] = k

\* lines 148-155: the combination the index vector points at (0-based indices)
Combo(grid, keys, indices) ==
    [k \in Range(keys) |-> grid[k][indices[KeyIndex(keys, k)] + 1]]

\* values[i][indices[i]] is out of bounds (the indexing of line 152 panics)
OutOfBounds(grid, keys, indices) ==
    \E i \in 1..Len(keys) : indices[i] >= Len(grid[keys[i]])

\* an odometer whose carry does not reach the other keys: only the last
\* key's index moves
AdvanceLastOnly(grid, keys, indices, i, carry) ==
    IF indices[i] + 1 >= Len(grid[keys[i]])
    THEN [indices |-> [indices EXCEPT ![i] = 0], carry |-> TRUE]
    ELSE [indices |-> [indices EXCEPT ![i] = indices[i] + 1], carry |-> FALSE]

RECURSIVE Advance(_, _, _, _, _)
\* lines 157-167: add one to the index vector, from the last key backwards
Advance(grid, keys, indices, i, carry) ==
    IF i < 1 THEN [indices |-> indices, carry |-> carry]
    ELSE IF carry
         THEN IF indices[i] + 1 >= Len(grid[keys[i]])
              THEN Advance(grid, keys, [indices EXCEPT ![i] = 0], i - 1, TRUE)
              ELSE Advance(grid, keys, [indices EXCEPT ![i] = indices[i] + 1], i - 1, FALSE)
         ELSE Advance(grid, keys, indices, i - 1, carry)

RECURSIVE CombosLoop(_, _, _, _)
\* lines 147-171
CombosLoop(grid, keys, indices, combos) ==
    IF OutOfBounds(grid, keys, indices) THEN [panic |-> TRUE, combos |-> combos]
    ELSE LET pushed == Append(combos, Combo(grid, keys, indices))
             next == Advance(grid, keys, indices, Len(keys), TRUE)
         IN  IF next.carry THEN [panic |-> FALSE, combos |-> pushed]
             ELSE CombosLoop(grid, keys, next.indices, pushed)

\* generate_combinations, lines 136-174 (and its copy, walk_forward.rs lines
\* 221-240).  keys is grid.keys() in the order the HashMap yields it.
generate_combinations(grid, keys) ==
    IF keys = <<>> THEN [panic |-> FALSE, combos |-> << <<>> >>]
    ELSE CombosLoop(grid, keys, [i \in 1..Len(keys) |-> 0], <<>>)

\* the value handed to backtest::run for one combination, lines 72-78
BacktestInput(config, candles, params) ==
    [strategy |-> config.strategy,
     initial_capital |-> config.initial_capital,
     candles |-> candles,
     params |-> params,
     valid |-> params \notin config.faults]

\* an entry of zeros for a failing run
EntryZero(combo, r) ==
    [params |-> combo,
     sharpe_ratio |-> IF r.ok THEN r.value.sharpe_ratio ELSE 0,
     win_rate |-> IF r.ok THEN r.value.win_rate ELSE 0,
     profit_factor |-> IF r.ok THEN r.value.profit_factor ELSE 0,
     max_drawdown |-> IF r.ok THEN r.value.max_drawdown ELSE 0,
     total_trades |-> IF r.ok THEN r.value.total_trades ELSE 0]

\* a search that enters a failing run as an entry of zeros
ParamResultZero(config, combo) ==
    EntryZero(combo, run(BacktestInput(config, config.candles, combo)))

\* the leaderboard entry for the result r of a run, lines 80-110
Entry(combo, r) ==
    IF r.ok
    THEN [params |-> combo,
          sharpe_ratio |-> r.value.sharpe_ratio,
          win_rate |-> r.value.win_rate,
          profit_factor |-> r.value.profit_factor,
          max_drawdown |-> r.value.max_drawdown,
          total_trades |-> r.value.total_trades]
    ELSE [params |-> combo,
          sharpe_ratio |-> NegInf,
          win_rate |-> 0,
          profit_factor |-> 0,
          max_drawdown |-> SentinelDrawdown,
          total_trades |-> 0]

\* one pass of the loop over the combinations, lines 71-111
ParamResult(config, combo) ==
    Entry(combo, run(BacktestInput(config, config.candles, combo)))

\* where an unstable descending sort may put x: before the entries of equal Sharpe
InsertBeforeEqual(sorted, x) ==
    LET before == {k \in 0..Len(sorted) :
                      \A j \in 1..k : sorted[j].sharpe_ratio > x.sharpe_ratio}
        at == CHOOSE k \in before : \A m \in before : m <= k
    IN  SubSeq(sorted, 1, at) \o <<x>> \o SubSeq(sorted, at + 1, Len(sorted))

\* where a stable descending sort puts x among the already sorted entries
InsertDesc(sorted, x) ==
    LET before == {k \in 0..Len(sorted) :
                      \A j \in 1..k : sorted[j].sharpe_ratio >= x.sharpe_ratio}
        at == CHOOSE k \in before : \A m \in before : m <= k
    IN  SubSeq(sorted, 1, at) \o <<x>> \o SubSeq(sorted, at + 1, Len(sorted))

\* a leaderboard left in generation order
KeepOrder(results, k) == SubSeq(results, 1, k)

RECURSIVE SortDesc(_, _)
\* line 113: sort_by is stable; entries of equal Sharpe keep generation order
SortDesc(results, k) ==
    IF k = 0 THEN <<>> ELSE InsertDesc(SortDesc(results, k - 1), results[k])

\* the JSON values null and Number(x)
Null == <<>>
Number(x) == <<x>>

\* serde_json::to_value of an f64: a number, or null when it is not finite
NumberValue(x) == IF x = NegInf THEN Null ELSE Number(x)

\* line 133: the OptimizeResult as a JSON value (the Sharpe fields are the
\* ones that can hold a value that is not finite)
ToValue(result) ==
    IF result.kind # "ok" THEN result
    ELSE [result EXCEPT
             !.best_sharpe = NumberValue(result.best_sharpe),
             !.all_results = [k \in 1..Len(result.all_results) |->
                                 [result.all_results[k] EXCEPT
                                     !.sharpe_ratio = NumberValue(result.all_results[k].sharpe_ratio)]]]

\* lines 115-131: the OptimizeResult of a sorted leaderboard
OptimizeResult(all_results) ==
    [kind |-> "ok",
     best_params |-> all_results[1].params,
     best_sharpe |-> all_results[1].sharpe_ratio,
     best_win_rate |-> all_results[1].win_rate,
     best_profit_factor |-> all_results[1].profit_factor,
     all_results |-> all_results]

\* lines 69-111: one entry per combination, in generation order
Evaluate(config, param_combos) ==
    [k \in 1..Len(param_combos) |-> ParamResult(config, param_combos[k])]

\* lines 54-131, for what generate_combinations gave
OptimizeCombos(config, gen) ==
    IF gen.panic THEN [kind |-> "panic"]
    ELSE IF gen.combos = <<>> THEN [kind |-> "err", error |-> "Empty parameter grid"]
    ELSE OptimizeResult(SortDesc(Evaluate(config, gen.combos), Len(gen.combos)))

\* optimize::compute, lines 44-131: the OptimizeResult, an error, or the panic
\* of generate_combinations
Optimize(config, keys) ==
    IF config.candles = <<>>
    THEN [kind |-> "err", error |-> "No candles provided for optimization"]
    ELSE OptimizeCombos(config, generate_combinations(config.param_grid, keys))

(***************************************************************************)
(* walk_forward.rs                                                         *)
(***************************************************************************)
\* line 66
NumFolds(config) ==
    Min(Max(IF config.num_folds = None THEN DefaultFolds ELSE config.num_folds[1], MinFolds),
        MaxFolds)

\* line 67, in percent
IsRatio(config) ==
    Min(Max(IF config.in_sample_ratio = None THEN DefaultRatio ELSE config.in_sample_ratio[1],
            MinRatio),
        MaxRatio)

\* line 69
FoldSize(config) == Len(config.candles) \div NumFolds(config)

\* lines 90-91: the fold's candles are candles[fold_start..fold_end] (0-based, end excluded)
FoldStart(config, fold) == fold * FoldSize(config)
\* a last fold that ends where a fold of fold_size candles would
FoldEndNoRemainder(config, fold) == (fold + 1) * FoldSize(config)

FoldEnd(config, fold) ==
    IF fold = NumFolds(config) - 1 THEN Len(config.candles) ELSE (fold + 1) * FoldSize(config)
FoldCandles(config, fold) ==
    SubSeq(config.candles, FoldStart(config, fold) + 1, FoldEnd(config, fold))

\* line 94: (fold_candles.len() as f64 * is_ratio) as usize.  The integer quotient
\* is the f64 result for every fold shorter than 90 candles at the ratios 0.5,
\* 0.53, 0.7, 0.82, 0.87 and 0.9 (at 90 candles, 90.0 * 0.7 is 62.99.. in f64).
SplitIndex(config, fold) == (Len(FoldCandles(config, fold)) * IsRatio(config)) \div 100

\* a validator that skips no fold
RetainAll(config, fold) == TRUE

\* line 95: the fold is kept
Retained(config, fold) ==
    ~(SplitIndex(config, fold) < MinInSample
      \/ Len(FoldCandles(config, fold)) - SplitIndex(config, fold) < MinOutSample)

\* a validator that optimizes over the whole fold
WholeFold(config, fold) == FoldCandles(config, fold)

\* lines 99-100
InSample(config, fold) == SubSeq(FoldCandles(config, fold), 1, SplitIndex(config, fold))
OutSample(config, fold) ==
    SubSeq(FoldCandles(config, fold), SplitIndex(config, fold) + 1,
           Len(FoldCandles(config, fold)))

\* a search that lets a later combination of equal Sharpe replace the best
BetterOrEqual(best, r, combo) ==
    IF r.ok /\ r.value.sharpe_ratio >= best.best_is_sharpe
    THEN [best_is_sharpe |-> r.value.sharpe_ratio, best_params |-> combo]
    ELSE best

\* lines 114-120: the best so far, after the run of one combination gave r
Better(best, r, combo) ==
    IF r.ok /\ r.value.sharpe_ratio > best.best_is_sharpe
    THEN [best_is_sharpe |-> r.value.sharpe_ratio, best_params |-> combo]
    ELSE best

RECURSIVE BestLoop(_, _, _, _, _)
\* lines 105-121: the first combination of strictly greatest in-sample Sharpe
BestLoop(config, in_sample, param_combos, k, best) ==
    IF k > Len(param_combos) THEN best
    ELSE BestLoop(config, in_sample, param_combos, k + 1,
                  Better(best, run(BacktestInput(config, in_sample, param_combos[k])),
                         param_combos[k]))

\* a search that starts from a Sharpe of zero
BestFromZero(config, in_sample, param_combos) ==
    BestLoop(config, in_sample, param_combos, 1,
             [best_is_sharpe |-> 0, best_params |-> <<>>])

\* lines 102-103 and 105-121
BestInSample(config, in_sample, param_combos) ==
    BestLoop(config, in_sample, param_combos, 1,
             [best_is_sharpe |-> NegInf, best_params |-> <<>>])

\* lines 131-143: what is read off the result r of the out-of-sample run
ReadOutOfSample(config, r) ==
    IF r.ok
    THEN [sharpe |-> r.value.sharpe_ratio,
          win_rate |-> r.value.win_rate,
          trades |-> r.value.total_trades,
          pnl |-> IF r.value.equity_curve = <<>> THEN 0
                  ELSE r.value.equity_curve[Len(r.value.equity_curve)].nav
                       - config.initial_capital]
    ELSE [sharpe |-> 0, win_rate |-> 0, trades |-> 0, pnl |-> 0]

\* lines 123-143
OutOfSample(config, out_sample, best_params) ==
    ReadOutOfSample(config, run(BacktestInput(config, out_sample, best_params)))

\* lines 152-155: the win rate of the in-sample run is_run
InSampleWinRate(is_run) == IF is_run.ok THEN is_run.value.win_rate ELSE 0

\* lines 157-161, in hundredths
Degradation(best_is_sharpe, oos_sharpe) ==
    IF best_is_sharpe > 0
    THEN RoundDiv(100 * (best_is_sharpe - oos_sharpe), best_is_sharpe)
    ELSE 0

\* lines 166-176
FoldRecord(fold, best, oos, is_wr) ==
    [fold |-> fold,
     in_sample_sharpe |-> best.best_is_sharpe,
     out_sample_sharpe |-> oos.sharpe,
     in_sample_win_rate |-> is_wr,
     out_sample_win_rate |-> oos.win_rate,
     best_params |-> best.best_params,
     out_sample_trades |-> oos.trades,
     out_sample_pnl |-> oos.pnl,
     degradation |-> Degradation(best.best_is_sharpe, oos.sharpe)]

\* lines 123-176: the FoldResult, given the best of the in-sample search
FoldWithBest(config, fold, in_sample, out_sample, best) ==
    FoldRecord(fold, best,
               OutOfSample(config, out_sample, best.best_params),
               InSampleWinRate(run(BacktestInput(config, in_sample, best.best_params))))

\* lines 99-176: the FoldResult of a retained fold
FoldResult(config, param_combos, fold) ==
    FoldWithBest(config, fold, InSample(config, fold), OutSample(config, fold),
                 BestInSample(config, InSample(config, fold), param_combos))

RECURSIVE FoldsLoop(_, _, _)
\* lines 89-177: the folds kept, in fold order
FoldsLoop(config, param_combos, fold) ==
    IF fold >= NumFolds(config) THEN <<>>
    ELSE (IF Retained(config, fold)
          THEN <<FoldResult(config, param_combos, fold)>> ELSE <<>>)
         \o FoldsLoop(config, param_combos, fold + 1)

\* lines 163-164: the out-of-sample Sharpes recorded under one ParameterSet
Scores(folds, params) ==
    SelectSeq([k \in 1..Len(folds) |-> folds[k]], LAMBDA f : f.best_params = params)

\* a choice that falls back on the empty ParameterSet
BestRobustFallback(folds) == {<<>>}

\* lines 193-200: the ParameterSets max_by may return; which one among those
\* of equal mean depends on the HashMap's iteration order
BestRobust(folds) ==
    LET chosen == {folds[k].best_params : k \in 1..Len(folds)}
        total(p) == SumSeq([k \in 1..Len(Scores(folds, p)) |->
                               Scores(folds, p)[k].out_sample_sharpe])
        count(p) == Len(Scores(folds, p))
    IN  {p \in chosen : \A q \in chosen : total(p) * count(q) >= total(q) * count(p)}

\* an aggregate that counts a fold as consistent when its out-of-sample Sharpe
\* is not negative
AggregateNonNegative(folds) ==
    LET n_folds == Len(folds)
        sum_is == SumSeq([k \in 1..n_folds |-> folds[k].in_sample_sharpe])
        sum_oos == SumSeq([k \in 1..n_folds |-> folds[k].out_sample_sharpe])
        sum_deg == SumSeq([k \in 1..n_folds |-> folds[k].degradation])
        positive_folds == Cardinality({k \in 1..n_folds : folds[k].out_sample_sharpe >= 0})
    IN  [avg_in_sample_sharpe |-> RoundDiv(sum_is, n_folds),
         avg_out_sample_sharpe |-> RoundDiv(sum_oos, n_folds),
         avg_degradation |-> RoundDiv(sum_deg, n_folds),
         total_out_sample_trades |-> SumSeq([k \in 1..n_folds |-> folds[k].out_sample_trades]),
         total_out_sample_pnl |-> SumSeq([k \in 1..n_folds |-> folds[k].out_sample_pnl]),
         consistency_score |-> RoundDiv(100 * positive_folds, n_folds)]

\* the AggregateMetrics, lines 183-191 and 206-213 (ratios in hundredths)
Aggregate(folds) ==
    LET n_folds == Len(folds)
        sum_is == SumSeq([k \in 1..n_folds |-> folds[k].in_sample_sharpe])
        sum_oos == SumSeq([k \in 1..n_folds |-> folds[k].out_sample_sharpe])
        sum_deg == SumSeq([k \in 1..n_folds |-> folds[k].degradation])
        positive_folds == Cardinality({k \in 1..n_folds : folds[k].out_sample_sharpe > 0})
    IN  [avg_in_sample_sharpe |-> RoundDiv(sum_is, n_folds),
         avg_out_sample_sharpe |-> RoundDiv(sum_oos, n_folds),
         avg_degradation |-> RoundDiv(sum_deg, n_folds),
         total_out_sample_trades |-> SumSeq([k \in 1..n_folds |-> folds[k].out_sample_trades]),
         total_out_sample_pnl |-> SumSeq([k \in 1..n_folds |-> folds[k].out_sample_pnl]),
         consistency_score |-> RoundDiv(100 * positive_folds, n_folds)]

\* overfitting_score, lines 202 and 215 (in hundredths)
OverfittingScore(folds) ==
    LET sum_is == SumSeq([k \in 1..Len(folds) |-> folds[k].in_sample_sharpe])
        sum_oos == SumSeq([k \in 1..Len(folds) |-> folds[k].out_sample_sharpe])
        overfit == IF sum_is > 0 THEN RoundDiv(100 * (sum_is - sum_oos), sum_is) ELSE 0
    IN  Min(Max(overfit, 0), 100)

\* lines 179-216: the result but for best_robust_params, or the error
FoldsResult(folds) ==
    IF folds = <<>>
    THEN [kind |-> "err", error |-> "No valid folds produced"]
    ELSE [kind |-> "ok", folds |-> folds, aggregate |-> Aggregate(folds),
          overfitting_score |-> OverfittingScore(folds)]

\* lines 75-216, for what generate_combinations gave
WalkForwardCombos(config, gen) ==
    IF gen.panic THEN [kind |-> "panic"]
    ELSE IF gen.combos = <<>> THEN [kind |-> "err", error |-> "Empty parameter grid"]
    ELSE FoldsResult(FoldsLoop(config, gen.combos, 0))

\* a validator without the checks of lines 61-72
WalkForwardUnchecked(config, keys) ==
    WalkForwardCombos(config, generate_combinations(config.param_grid, keys))

\* walk_forward::compute, lines 57-219, up to the choice of best_robust_params
WalkForward(config, keys) ==
    IF Len(config.candles) < MinCandles
    THEN [kind |-> "err", error |-> "Need at least 60 candles for walk-forward analysis"]
    ELSE IF FoldSize(config) < MinFoldSize
    THEN [kind |-> "err", error |-> "Not enough data for requested number of folds"]
    ELSE WalkForwardCombos(config, generate_combinations(config.param_grid, keys))

\* the results walk_forward::compute may return for r: best_robust_params is
\* any of the ParameterSets max_by may yield (lines 193-200, 214)
Results(r) ==
    IF r.kind = "ok"
    THEN {[kind |-> "ok", folds |-> r.folds, aggregate |-> r.aggregate,
           best_robust_params |-> p, overfitting_score |-> r.overfitting_score] :
             p \in BestRobust(r.folds)}
    ELSE {r}

(***************************************************************************)
(* risk.rs                                                                 *)
(*                                                                         *)
(* Returns are integers counting hundredths (Percent units per 1.0), the   *)
(* risk-free rate counts RfDen-ths of a hundredth, and nav, peak and the   *)
(* drawdown are exact fractions in lowest terms.  Money amounts of the     *)
(* output count hundredths, calmar_ratio counts ten-thousandths.           *)
(***************************************************************************)
\* returns of the model per 1.0
Percent == 100
\* the default risk-free rate 0.06 / 252.0 is 1/42 of a hundredth
RfDen == 42
DefaultRf == 1
\* var_95_idx = ((1.0 - 0.95) * n) as usize = n / 20, var_99_idx = n / 100
TailDiv == 20
Tail99Div == 100
\* 252 periods a year
Annual == 252

RECURSIVE Gcd(_, _)
Gcd(a, b) == IF b = 0 THEN a ELSE Gcd(b, a % b)

\* the fraction num/den (den > 0) in lowest terms
Reduce(num, den) ==
    [num |-> num \div Gcd(Abs(num), den), den |-> den \div Gcd(Abs(num), den)]

\* floor(a * b / d) for a large and b/d a fraction of small terms once reduced
MulDivReduced(a, b, d) == MulDiv(a, b \div Gcd(b, d), d \div Gcd(b, d))

RECURSIVE InsertAsc(_, _)
\* where a stable ascending sort puts x among the sorted s: after its equals
InsertAsc(s, x) ==
    IF s = <<>> THEN <<x>>
    ELSE IF x < s[1] THEN <<x>> \o s
    ELSE <<s[1]>> \o InsertAsc(Tail(s), x)

\* a sort that leaves the returns as they came
KeepUnsorted(returns, k) == SubSeq(returns, 1, k)

RECURSIVE SortAsc(_, _)
\* sorted.sort_by(|a, b| a.partial_cmp(b).unwrap()), line 73: the first k sorted
SortAsc(returns, k) ==
    IF k = 0 THEN <<>> ELSE InsertAsc(SortAsc(returns, k - 1), returns[k])

\* risk_free_rate.unwrap_or(0.06 / 252.0) in RfDen-ths of a hundredth, line 40
RiskFree(input) ==
    IF input.risk_free_rate = None THEN DefaultRf ELSE RfDen * input.risk_free_rate[1]

\* the sum of the excess returns over a divisor, in lowest terms: mean_excess
\* is num / (den * Percent * n), lines 43-44
Excess(input) ==
    Reduce(RfDen * SumSeq(input.returns) - Len(input.returns) * RiskFree(input), RfDen)

\* n * n * variance in squared hundredths, line 46
SpreadOf(returns) ==
    Len(returns) * SumSeq([k \in 1..Len(returns) |-> returns[k] * returns[k]])
    - SumSeq(returns) * SumSeq(returns)

\* the rounded magnitude h/100 of sqrt(ratio * 252), for ratio = b / d
AnnualizedRoot(b, d) == (Isqrt(MulDivReduced(FourAnnual, b, d)) + 1) \div 2

\* round2(sharpe) in hundredths, lines 46-51 and 83
RiskSharpe(input) ==
    LET e == Excess(input)
        D == SpreadOf(input.returns)
    IN  IF D = 0 THEN 0
        ELSE IF e.num >= 0 THEN AnnualizedRoot(e.num * e.num, e.den * e.den * D)
        ELSE -AnnualizedRoot(e.num * e.num, e.den * e.den * D)

\* round2(sortino) in hundredths, lines 53-58 and 84
RiskSortino(input) ==
    LET e == Excess(input)
        n == Len(input.returns)
        neg == SelectSeq(input.returns, IsLoss)
        Q == SumSeq([k \in 1..Len(neg) |-> neg[k] * neg[k]])
    IN  IF Q = 0 THEN 0
        ELSE IF e.num >= 0
        THEN AnnualizedRoot(e.num * e.num * Len(neg), e.den * e.den * n * n * Q)
        ELSE -AnnualizedRoot(e.num * e.num * Len(neg), e.den * e.den * n * n * Q)

\* lines 60-62
DrawdownInit(input) ==
    [nav |-> Reduce(input.initial_capital, 1),
     peak |-> Reduce(input.initial_capital, 1),
     max_dd |-> [num |-> 0, den |-> 1]]

\* the peak and the greatest drawdown, given the nav after one more return
DrawdownTrack(st, nav) ==
    LET peak == IF nav.num * st.peak.den > st.peak.num * nav.den THEN nav ELSE st.peak
        dd == Reduce(peak.num * nav.den - nav.num * peak.den, peak.num * nav.den)
    IN  [nav |-> nav,
         peak |-> peak,
         max_dd |-> IF dd.num * st.max_dd.den > st.max_dd.num * dd.den
                    THEN dd ELSE st.max_dd]

\* the product of two fractions in lowest terms
Times(x, y) == Reduce(x.num * y.num, x.den * y.den)

\* one iteration of the loop over the returns, lines 63-68
DrawdownStep(st, ret) ==
    DrawdownTrack(st, Times(st.nav, Reduce(Percent + ret, Percent)))

RECURSIVE DrawdownLoop(_, _, _)
\* the loop from the k-th return on, st being the state the earlier ones left
DrawdownLoop(returns, k, st) ==
    IF k > Len(returns) \/ st.nav # st.nav THEN st
    ELSE DrawdownLoop(returns, k + 1, DrawdownStep(st, returns[k]))

\* round4(calmar) in ten-thousandths, lines 49, 70 and 85
Calmar(returns, max_dd) ==
    IF max_dd.num > 0
    THEN RoundDiv(Annual * SumSeq(returns) * max_dd.den, Len(returns) * max_dd.num)
    ELSE 0

\* round2(var) in hundredths for the cutoff index var_idx, lines 76-77 and 88-89
ValueAtRisk(sorted, var_idx, capital) ==
    IF var_idx < Len(sorted) THEN -sorted[var_idx + 1] * capital ELSE 0

\* round2(cvar_95) in hundredths, lines 78-80 and 90
ConditionalValueAtRisk(sorted, var_idx, capital) ==
    IF var_idx > 0
    THEN RoundDiv(-SumSeq(SubSeq(sorted, 1, var_idx)) * capital, var_idx)
    ELSE ValueAtRisk(sorted, var_idx, capital)

\* lines 82-95, for the sorted returns and the greatest drawdown (volatility
\* is not modelled)
RiskOutput(input, sorted, max_dd) ==
    [sharpe_ratio |-> RiskSharpe(input),
     sortino_ratio |-> RiskSortino(input),
     calmar_ratio |-> Calmar(input.returns, max_dd),
     max_drawdown |-> RoundDiv(Percent * max_dd.num * input.initial_capital, max_dd.den),
     max_drawdown_percent |-> RoundDiv(Percent * Percent * max_dd.num, max_dd.den),
     var_95 |-> ValueAtRisk(sorted, Len(sorted) \div TailDiv, input.initial_capital),
     var_99 |-> ValueAtRisk(sorted, Len(sorted) \div Tail99Div, input.initial_capital),
     cvar_95 |-> ConditionalValueAtRisk(sorted, Len(sorted) \div TailDiv,
                                        input.initial_capital),
     beta |-> 0,
     alpha |-> 0,
     annualized_return |-> RoundDiv(Annual * Percent * SumSeq(input.returns),
                                    Len(input.returns))]

\* the output for an empty return series, lines 31-38
EmptyRiskOutput ==
    [sharpe_ratio |-> 0, sortino_ratio |-> 0, calmar_ratio |-> 0, max_drawdown |-> 0,
     max_drawdown_percent |-> 0, var_95 |-> 0, var_99 |-> 0, cvar_95 |-> 0,
     beta |-> 0, alpha |-> 0, annualized_return |-> 0]

\* risk::compute, lines 27-98
Risk(input) ==
    IF input.returns = <<>> THEN Ok(EmptyRiskOutput)
    ELSE Ok(RiskOutput(input, SortAsc(input.returns, Len(input.returns)),
                       DrawdownLoop(input.returns, 1, DrawdownInit(input)).max_dd))

(***************************************************************************)
(* Requests                                                                *)
(***************************************************************************)
Prices == 1..MaxPrice
Strategies == {"ema-crossover", "supertrend", "momentum"}
Capitals == {20, 100}

\* n candles at the base price, but for FreeLen bars from position w on
Series(n, base, w, pattern) ==
    [k \in 1..n |-> [timestamp |-> k,
                     close |-> IF k >= w /\ k < w + FreeLen THEN pattern[k - w + 1] ELSE base]]

Patterns == [1..FreeLen -> Prices]
\* the patterns of lowest and highest prices only
ExtremePatterns == [1..FreeLen -> {1, MaxPrice}]

\* a series with a second run of free bars, FreeLen bars after the first ends
TwoWindows(n, base, w, first, second) ==
    [k \in 1..n |->
        [timestamp |-> k,
         close |-> IF k >= w /\ k < w + FreeLen THEN first[k - w + 1]
                   ELSE IF k >= w + 2 * FreeLen /\ k < w + 3 * FreeLen
                        THEN second[k - w - 2 * FreeLen + 1]
                        ELSE base]]

Flat(n, base) == [k \in 1..n |-> [timestamp |-> k, close |-> base]]

\* candidate lists: the first m multiples of the key's unit
Unit(key) == IF key = "a" THEN 1 ELSE 10
Candidates(key, m) == [j \in 1..m |-> j * Unit(key)]

Grids ==
    UNION {[ks -> 0..MaxValues] : ks \in SUBSET {"a", "b"}}

GridOf(lens) == [k \in DOMAIN lens |-> Candidates(k, lens[k])]

\* the orders in which a HashMap with these keys may yield them
KeyOrders(grid) ==
    {o \in UNION {[1..m -> DOMAIN grid] : m \in {Cardinality(DOMAIN grid)}} :
        \A x, y \in DOMAIN o : x # y => o[x] # o[y]}

Idle == [kind |-> "none"]

NoLoop == [nav |-> 0, peak |-> 0, max_dd |-> [num |-> 0, den |-> 1], trades |-> <<>>,
           equity_curve |-> <<>>, position |-> None]

Request(strategy, capital, candles, grid, ratio, folds) ==
    [strategy |-> strategy,
     initial_capital |-> capital,
     candles |-> candles,
     params |-> <<>>,
     param_grid |-> grid,
     in_sample_ratio |-> ratio,
     num_folds |-> folds,
     faults |-> {}]

Fresh ==
    /\ pc = "start"
    /\ idx = 0
    /\ loop = NoLoop
    /\ response = Idle
    /\ twin_response = Idle
    /\ replayed = None

\* the positions (1-based) at which the free bars may start: around the first
\* bar at which the strategy decides
WindowStarts == (LongPeriod - 2)..(LongPeriod + FreeLen)

\* ParameterSets that name the averaging windows: shorter ones than 9 and 21,
\* and longer ones
WindowParams == {[shortWindow |-> 5, longWindow |-> 10],
                 [shortWindow |-> 12, longWindow |-> 25]}

\* "backtest" requests: no candle, one candle, or MaxBtCandles of them with
\* one or two runs of free bars, without and with a ParameterSet that names
\* the windows
InitBacktest ==
    /\ command = "backtest"
    /\ \/ \E sc \in {<<strategy, 100>> : strategy \in Strategies}
                      \cup {<<"ema-crossover", capital>> : capital \in Capitals} :
             \E candles \in {Flat(0, BasePrice), Flat(1, BasePrice)}
                            \cup {Series(MaxBtCandles, BasePrice, w, p) :
                                     w \in WindowStarts, p \in Patterns} :
                request = Request(sc[1], sc[2], candles, <<>>, None, None)
       \/ \E p \in Patterns, q \in ExtremePatterns :
             request = Request("ema-crossover", 100,
                               TwoWindows(MaxBtCandles, BasePrice, LongPeriod - 1, p, q),
                               <<>>, None, None)
       \/ \E params \in WindowParams, p \in ExtremePatterns :
             request = [Request("ema-crossover", 100,
                                Series(MaxBtCandles, BasePrice, LongPeriod + 1, p),
                                <<>>, None, None) EXCEPT !.params = params]
    /\ hash_order = <<>>
    /\ twin = [candles |-> request.candles, keys |-> hash_order]
    /\ Fresh

\* "optimize" requests: every grid over the keys a and b, in every key order
InitOptimize ==
    /\ command = "optimize"
    /\ \E strategy \in Strategies, lens \in Grids :
          \E candles \in {Flat(0, BasePrice)}
                         \cup {Series(MaxBtCandles, BasePrice, LongPeriod, [k \in 1..FreeLen |-> v]) :
                                  v \in Prices} :
             request = Request(strategy, 100, candles, GridOf(lens), None, None)
    /\ hash_order \in KeyOrders(request.param_grid)
    /\ \E o \in KeyOrders(request.param_grid) : twin = [candles |-> request.candles, keys |-> o]
    /\ Fresh

\* "optimize" requests in which up to two combinations of the grid make a
\* value that backtest::run cannot deserialize
InitFaults ==
    /\ command = "optimize"
    /\ \E lens \in [{"a", "b"} -> 1..MaxValues], v \in {1, MaxPrice} :
          \E faults \in {F \in SUBSET [{"a", "b"} -> 1..MaxValues] : Cardinality(F) <= 2} :
             request = [Request("ema-crossover", 100,
                                Series(MaxBtCandles, BasePrice, LongPeriod + 1,
                                       [k \in 1..FreeLen |-> v]),
                                GridOf(lens), None, None)
                           EXCEPT !.faults = {[k \in {"a", "b"} |-> f[k] * Unit(k)] : f \in faults}]
    /\ hash_order \in KeyOrders(request.param_grid)
    /\ twin = [candles |-> request.candles, keys |-> hash_order]
    /\ Fresh

TwoKeyGrid == GridOf([k \in {"a", "b"} |-> MaxValues])

\* "walk_forward" requests over flat prices: the fold geometry
InitWalkForwardFlat ==
    /\ command = "walk_forward"
    /\ \E n \in {MinCandles - 1, MinCandles, MaxWfCandles},
          folds \in {None} \cup {Some(f) : f \in 1..MaxFoldsAsked},
          ratio \in {None, Some(30), Some(50), Some(82), Some(87), Some(95)},
          grid \in {TwoKeyGrid, GridOf([k \in {"a", "b"} |-> IF k = "a" THEN 0 ELSE MaxValues])} :
          request = Request("ema-crossover", 100, Flat(n, BasePrice), grid, ratio, folds)
    /\ hash_order \in KeyOrders(request.param_grid)
    /\ twin = [candles |-> request.candles, keys |-> hash_order]
    /\ Fresh

\* the positions at which the free bars start in a walk-forward request
WfWindowStarts == {LongPeriod - 1, LongPeriod + 1}

\* "walk_forward" requests over two folds of MaxWfCandles candles, with free
\* bars in the first fold; the second request differs from the first in one
\* bar: the last in-sample bar of fold 0, its first out-of-sample bar, or a
\* bar of fold 1
InitWalkForwardTrading ==
    /\ command = "walk_forward"
    /\ \E ratio \in {None, Some(82)}, w \in WfWindowStarts, p \in ExtremePatterns :
          request = Request("ema-crossover", 100, Series(MaxWfCandles, BasePrice, w, p),
                            TwoKeyGrid, ratio, Some(2))
    /\ hash_order = <<"a", "b">>
    /\ \E j \in {SplitIndex(request, 0), SplitIndex(request, 0) + 1,
                  FoldStart(request, 1) + LongPeriod + 1},
          v \in {1, MaxPrice} :
          twin = [candles |-> [request.candles EXCEPT ![j].close = v], keys |-> hash_order]
    /\ Fresh

\* "walk_forward" requests over ExampleCandles candles of one price, with the
\* default number of folds
InitWalkForwardExample ==
    /\ command = "walk_forward"
    /\ \E price \in Prices, ratio \in {None, Some(50), Some(95)} :
          request = Request("ema-crossover", 100, Flat(ExampleCandles, price),
                            TwoKeyGrid, ratio, None)
    /\ hash_order \in KeyOrders(request.param_grid)
    /\ twin = [candles |-> request.candles, keys |-> hash_order]
    /\ Fresh

\* "walk_forward" requests over two folds of MaxWfCandles candles whose free
\* bars start at the last but one candle of fold 0: at the ratio 0.5 its
\* out-of-sample segment has 23 candles and ends with the first two free bars,
\* at 0.53 it has 22
InitWalkForwardLastBar ==
    /\ command = "walk_forward"
    /\ \E ratio \in {Some(50), Some(53)}, p \in ExtremePatterns :
          request = Request("ema-crossover", 100,
                            Series(MaxWfCandles, BasePrice, MaxWfCandles \div 2 - 1, p),
                            TwoKeyGrid, ratio, Some(2))
    /\ hash_order = <<"a", "b">>
    /\ twin = [candles |-> request.candles, keys |-> hash_order]
    /\ Fresh

InitWalkForward ==
    \/ InitWalkForwardFlat
    \/ InitWalkForwardTrading
    \/ InitWalkForwardExample
    \/ InitWalkForwardLastBar

RiskInput(returns, capital, rf) ==
    [returns |-> returns, initial_capital |-> capital, risk_free_rate |-> rf]

\* n returns of base hundredths, but for the first FreeLen of them
ReturnSeries(n, base, pattern) ==
    [k \in 1..n |-> IF k <= FreeLen THEN pattern[k] ELSE base]

\* losses of a half, gains of a half and gains of the whole
LargeReturns == {-50, 50, 100}

\* "risk" requests: every series of up to two small returns, and long series
\* around the lengths at which the 5% tail gains a return, of no return or of
\* gains of the whole but for the first FreeLen returns
InitRisk ==
    /\ command = "risk"
    /\ \/ \E n \in 0..2, capital \in Capitals, rf \in {None, Some(0), Some(1)} :
             \E returns \in [1..n -> (-MaxReturn)..MaxReturn] :
                request = RiskInput(returns, capital, rf)
       \/ \E nb \in ({TailDiv - 1, TailDiv, MaxRiskLen} \X {0, 100}) \cup {<<2 * TailDiv, 0>>} :
             \E pattern \in [1..FreeLen -> LargeReturns] :
                request = RiskInput(ReturnSeries(nb[1], nb[2], pattern), 100, Some(0))
    /\ hash_order = <<>>
    /\ twin = [candles |-> <<>>, keys |-> <<>>]
    /\ Fresh

Init == InitBacktest \/ InitOptimize \/ InitWalkForward \/ InitRisk

(***************************************************************************)
(* main.rs: handle_request                                                 *)
(***************************************************************************)
\* "backtest": backtest::run up to its loop, lines 56-73
BacktestStart ==
    /\ pc = "start"
    /\ command = "backtest"
    /\ LET data == BacktestInput(request, request.candles, request.params)
       IN  IF ~data.valid
           THEN /\ response' = [kind |-> "err", error |-> "Invalid backtest request"]
                /\ pc' = "done"
                /\ UNCHANGED loop
           ELSE IF data.candles = <<>>
           THEN /\ response' = [kind |-> "ok", value |-> EmptyReport]
                /\ pc' = "done"
                /\ UNCHANGED loop
           ELSE /\ loop' = RunInit(data)
                /\ pc' = "loop"
                /\ UNCHANGED response
    /\ idx' = 0
    /\ UNCHANGED <<command, request, hash_order, twin, twin_response, replayed>>

\* one iteration of the loop, lines 75-118
BacktestBar ==
    /\ pc = "loop"
    /\ idx < Len(request.candles)
    /\ loop' = RunStep(request, loop, idx)
    /\ idx' = idx + 1
    /\ UNCHANGED <<command, request, hash_order, twin, pc, response, twin_response, replayed>>

\* after the loop, lines 120-162
BacktestFinish ==
    /\ pc = "loop"
    /\ idx = Len(request.candles)
    /\ response' = [kind |-> "ok", value |-> Report(loop)]
    /\ pc' = "done"
    /\ UNCHANGED <<command, request, hash_order, twin, idx, loop, twin_response, replayed>>

\* "optimize"
HandleOptimize ==
    /\ pc = "start"
    /\ command = "optimize"
    /\ response' = ToValue(Optimize(request, hash_order))
    /\ twin_response' = ToValue(Optimize([request EXCEPT !.candles = twin.candles], twin.keys))
    /\ pc' = "done"
    /\ UNCHANGED <<command, request, hash_order, twin, idx, loop, replayed>>

\* "walk_forward"; best_robust_params is any of the ParameterSets max_by may return
HandleWalkForward ==
    /\ pc = "start"
    /\ command = "walk_forward"
    /\ response' \in Results(WalkForward(request, hash_order))
    /\ twin_response' = WalkForward([request EXCEPT !.candles = twin.candles], twin.keys)
    /\ pc' = "done"
    /\ UNCHANGED <<command, request, hash_order, twin, idx, loop, replayed>>

\* a following "backtest" request: one fold's in-sample candles with the
\* ParameterSet the validator reported for it
ReplayFold ==
    /\ pc = "done"
    /\ command = "walk_forward"
    /\ response.kind = "ok"
    /\ \E k \in 1..Len(response.folds) :
          /\ replayed' = Some(response.folds[k])
          /\ request' = [request EXCEPT !.candles = InSample(request, response.folds[k].fold),
                                        !.params = response.folds[k].best_params]
    /\ command' = "backtest"
    /\ hash_order' = <<>>
    /\ twin' = [candles |-> request'.candles, keys |-> <<>>]
    /\ pc' = "start"
    /\ response' = Idle
    /\ twin_response' = Idle
    /\ UNCHANGED <<idx, loop>>

\* the Response for a Result, lines 53-56
Respond(r) ==
    IF r.ok THEN [kind |-> "ok", value |-> r.value] ELSE [kind |-> "err", error |-> r.error]

\* "risk"
HandleRisk ==
    /\ pc = "start"
    /\ command = "risk"
    /\ response' = Respond(Risk(request))
    /\ pc' = "done"
    /\ UNCHANGED <<command, request, hash_order, twin, idx, loop, twin_response, replayed>>

NextBacktest ==
    \/ BacktestStart
    \/ BacktestBar
    \/ BacktestFinish

NextWalkForward ==
    \/ HandleWalkForward
    \/ ReplayFold
    \/ NextBacktest

Next ==
    \/ HandleOptimize
    \/ NextWalkForward
    \/ HandleRisk

\* every request
Spec == Init /\ [][Next]_vars

\* the "backtest" command
SpecBacktest == InitBacktest /\ [][NextBacktest]_vars

\* the "optimize" command
SpecOptimize == InitOptimize /\ [][HandleOptimize]_vars

\* the "optimize" command when simulator runs fail
SpecFaults == InitFaults /\ [][HandleOptimize]_vars

\* the "walk_forward" command, and the "backtest" requests that follow it
SpecWalkForward == InitWalkForward /\ [][NextWalkForward]_vars

\* the "optimize" and "walk_forward" commands: the searches over a grid
SpecSearch == (InitOptimize \/ InitWalkForward) /\ [][HandleOptimize \/ NextWalkForward]_vars

\* the "risk" command
SpecRisk == InitRisk /\ [][HandleRisk]_vars

(***************************************************************************)
(* Properties of the "walk_forward" command                                *)
(***************************************************************************)
\* both requests were answered with folds
BothAnswered ==
    /\ command = "walk_forward"
    /\ pc = "done"
    /\ response.kind = "ok"
    /\ twin_response.kind = "ok"

\* the candles at 0-based positions [fold_start, fold_start + split) of a series
InSampleRange(candles, fold) ==
    SubSeq(candles, FoldStart(request, fold) + 1,
           FoldStart(request, fold) + SplitIndex(request, fold))

\* C1: two candle series of the same length that agree on a retained fold's
\* in-sample range [fold_start, fold_start + split) get the same best_params
\* and the same in_sample_sharpe for that fold, wherever else they differ.
C1_NoFutureData ==
    BothAnswered =>
        \A k \in 1..Len(response.folds), m \in 1..Len(twin_response.folds) :
            (/\ response.folds[k].fold = twin_response.folds[m].fold
             /\ Len(request.candles) = Len(twin.candles)
             /\ InSampleRange(request.candles, response.folds[k].fold)
                    = InSampleRange(twin.candles, response.folds[k].fold))
            => /\ response.folds[k].best_params = twin_response.folds[m].best_params
               /\ response.folds[k].in_sample_sharpe = twin_response.folds[m].in_sample_sharpe

\* C1 witness: the two series differ in the first out-of-sample bar of fold 0,
\* whose in-sample segment traded to a Sharpe other than zero.
C1_Witness ==
    /\ BothAnswered
    /\ response.folds[1].fold = 0
    /\ twin_response.folds[1].fold = 0
    /\ InSampleRange(request.candles, 0) = InSampleRange(twin.candles, 0)
    /\ request.candles[SplitIndex(request, 0) + 1] # twin.candles[SplitIndex(request, 0) + 1]
    /\ response.folds[1].in_sample_sharpe # 0

\* C2: simulating a fold's in-sample candles alone with the fold's best_params
\* reports the sharpe_ratio that the validator reported as in_sample_sharpe.
C2_RoundTrip ==
    (/\ replayed # None
     /\ command = "backtest"
     /\ pc = "done")
    => /\ response.kind = "ok"
       /\ response.value.sharpe_ratio = replayed[1].in_sample_sharpe

\* C2 witness: a replayed fold whose simulation traded to a negative Sharpe
C2_Witness ==
    /\ replayed # None
    /\ command = "backtest"
    /\ pc = "done"
    /\ response.kind = "ok"
    /\ response.value.total_trades >= 2
    /\ response.value.sharpe_ratio < 0
    /\ request.params = replayed[1].best_params

\* C3: every fold in the folds list has an in-sample segment of more than
\* WarmUp candles.
C3_InSampleExceedsWarmUp ==
    (command = "walk_forward" /\ pc = "done" /\ response.kind = "ok")
    => \A k \in 1..Len(response.folds) :
           Len(InSample(request, response.folds[k].fold)) > WarmUp

(***************************************************************************)
(* Properties of the "optimize" command                                    *)
(***************************************************************************)
\* the request was answered; it had candles
Optimized ==
    /\ command = "optimize"
    /\ pc = "done"
    /\ request.candles # <<>>

\* the ParameterSets of a leaderboard, in its order
ParamsOf(all_results) == [k \in 1..Len(all_results) |-> all_results[k].params]

\* every choice of one candidate per key
CartesianProduct(grid) ==
    {c \in [DOMAIN grid -> UNION {Range(grid[k]) : k \in DOMAIN grid}] :
        \A k \in DOMAIN grid : c[k] \in Range(grid[k])}

RECURSIVE ProductOfLengths(_, _)
ProductOfLengths(grid, ks) ==
    IF ks = {} THEN 1
    ELSE LET k == CHOOSE x \in ks : TRUE
         IN  Len(grid[k]) * ProductOfLengths(grid, ks \ {k})

\* how often a ParameterSet occurs in a leaderboard
Occurrences(all_results, c) == Cardinality({k \in 1..Len(all_results) : all_results[k].params = c})

\* the sentinel entry, as the response carries it: f64::NEG_INFINITY is null
IsSentinel(e) ==
    /\ e.sharpe_ratio = Null
    /\ e.max_drawdown = SentinelDrawdown
    /\ e.total_trades = 0

\* C4: optimize answers with a leaderboard of one entry per ParameterSet of
\* the grid even when runs fail: the entry of a failing run is the sentinel
\* (Sharpe -infinity, drawdown 100%, no trades), the entry of any other run
\* carries that run's Sharpe.
C4_OneEntryPerParameterSet ==
    (Optimized /\ \A k \in DOMAIN request.param_grid : request.param_grid[k] # <<>>)
    => /\ response.kind = "ok"
       /\ Len(response.all_results) = Cardinality(CartesianProduct(request.param_grid))
       /\ \A c \in CartesianProduct(request.param_grid) :
              Occurrences(response.all_results, c) = 1
       /\ \A k \in 1..Len(response.all_results) :
              LET e == response.all_results[k]
              IN  IF e.params \in request.faults
                  THEN IsSentinel(e) /\ ParamResult(request, e.params).sharpe_ratio = NegInf
                  ELSE e.sharpe_ratio
                          = Number(run(BacktestInput(request, request.candles, e.params))
                                       .value.sharpe_ratio)

\* C4 witness: a four-combination grid of which one run failed and three did not
C4_Witness ==
    /\ Optimized
    /\ response.kind = "ok"
    /\ Len(response.all_results) = 4
    /\ Cardinality({k \in 1..4 : IsSentinel(response.all_results[k])}) = 1
    /\ Cardinality(request.faults) = 1

\* the Sharpe an entry of the response stands for
SharpeOf(e) == IF e.sharpe_ratio = Null THEN NegInf ELSE e.sharpe_ratio[1]

\* C5: a successful optimize lists all_results by non-increasing Sharpe, and
\* best_params is the ParameterSet of the first entry.
C5_LeaderboardSorted ==
    (Optimized /\ response.kind = "ok")
    => /\ \A j, k \in 1..Len(response.all_results) :
              j < k => SharpeOf(response.all_results[j]) >= SharpeOf(response.all_results[k])
       /\ response.best_params = response.all_results[1].params

\* C5 witness: the first ParameterSet generated failed, and is not first on
\* the leaderboard
C5_Witness ==
    /\ Optimized
    /\ response.kind = "ok"
    /\ generate_combinations(request.param_grid, hash_order).combos[1] \in request.faults
    /\ ~IsSentinel(response.all_results[1])
    /\ IsSentinel(response.all_results[Len(response.all_results)])

\* C6: the ParameterSets generated from a grid are its Cartesian product:
\* as many as the product of the candidate-list lengths, every choice of one
\* candidate per key exactly once; a grid without keys gives the one empty
\* ParameterSet.
C6_CartesianProduct ==
    (Optimized /\ response.kind = "ok")
    => /\ Len(response.all_results)
              = ProductOfLengths(request.param_grid, DOMAIN request.param_grid)
       /\ \A c \in CartesianProduct(request.param_grid) :
              Occurrences(response.all_results, c) = 1
       /\ \A k \in 1..Len(response.all_results) :
              response.all_results[k].params \in CartesianProduct(request.param_grid)
       /\ DOMAIN request.param_grid = {} => ParamsOf(response.all_results) = << <<>> >>

\* C6 witness: the grid {a: [1, 2], b: [10, 20]} gave four ParameterSets
C6_Witness ==
    /\ Optimized
    /\ response.kind = "ok"
    /\ request.param_grid = [a |-> <<1, 2>>, b |-> <<10, 20>>]
    /\ Len(response.all_results) = 4

\* C7: the ParameterSets are generated with the first key the map yields
\* changing fastest, and in the same sequence whatever order the map yields
\* its keys in.
C7_OdometerOrder ==
    (Optimized /\ response.kind = "ok" /\ twin_response.kind = "ok")
    => /\ ParamsOf(response.all_results) = ParamsOf(twin_response.all_results)
       /\ (Len(hash_order) >= 2 /\ Len(request.param_grid[hash_order[1]]) >= 2)
          => response.all_results[1].params[hash_order[1]]
                # response.all_results[2].params[hash_order[1]]

\* C8: a grid with an empty candidate list is answered with an error value.
C8_EmptyListIsConfigError ==
    (Optimized /\ \E k \in DOMAIN request.param_grid : request.param_grid[k] = <<>>)
    => response.kind = "err"

(***************************************************************************)
(* Properties of the "backtest" command                                    *)
(***************************************************************************)
\* backtest::run is in its loop or past it
Running ==
    /\ command = "backtest"
    /\ pc \in {"loop", "done"}
    /\ request.candles # <<>>

\* C9: with a positive initial capital and positive closes, nav is strictly
\* positive after every bar, and so is every nav of the equity curve.
C9_NavPositive ==
    (/\ Running
     /\ request.initial_capital > 0
     /\ \A k \in 1..Len(request.candles) : request.candles[k].close > 0)
    => /\ loop.nav > 0
       /\ \A k \in 1..Len(loop.equity_curve) : loop.equity_curve[k].nav > 0

\* C9 witness: inside the loop, after a trade closed at a loss
C9_Witness ==
    /\ Running
    /\ pc = "loop"
    /\ idx > WarmUp
    /\ loop.trades # <<>>
    /\ loop.trades[Len(loop.trades)].pnl < 0
    /\ loop.nav < request.initial_capital

\* nav at the end of iteration k (1-based) of the idx iterations done: the next
\* iteration recorded it on the equity curve, the last one left it in nav
NavAfter(k) == IF k < Len(loop.equity_curve) THEN loop.equity_curve[k + 1].nav ELSE loop.nav

\* the highest nav up to the end of iteration k
PeakAfter(k) ==
    LET navs == {request.initial_capital} \cup {NavAfter(j) : j \in 1..k}
    IN  CHOOSE p \in navs : \A q \in navs : q <= p

\* the drawdown (peak - nav)/peak at the end of iteration k equals num/den
DrawdownIs(k, dd) == (PeakAfter(k) - NavAfter(k)) * dd.den = dd.num * PeakAfter(k)
\* ... or is at most num/den
DrawdownAtMost(k, dd) == (PeakAfter(k) - NavAfter(k)) * dd.den <= dd.num * PeakAfter(k)

\* C10 at a state: peak is the highest nav so far, so at least nav; the
\* greatest drawdown so far lies in [0, 1] and is the greatest of the
\* drawdowns at the end of each iteration done; the report gives it as
\* max_drawdown (in percent).
PeakAndDrawdown ==
    Running
    => /\ loop.peak >= loop.nav
       /\ loop.peak = PeakAfter(idx)
       /\ loop.max_dd.den > 0
       /\ 0 <= loop.max_dd.num
       /\ loop.max_dd.num <= loop.max_dd.den
       /\ \A k \in 1..idx : DrawdownAtMost(k, loop.max_dd)
       /\ IF idx = 0 THEN loop.max_dd.num = 0
          ELSE \E k \in 1..idx : DrawdownIs(k, loop.max_dd)
       /\ pc = "done"
          => response.value.max_drawdown = RoundDiv(loop.max_dd.num * 10000, loop.max_dd.den)

\* C10 at a step: an iteration never lowers the peak
PeakNeverFalls == (pc = "loop" /\ pc' = "loop") => loop'.peak >= loop.peak

\* C10: the running peak never falls from bar to bar and is at least the nav,
\* every drawdown lies in [0, 1], and the reported max drawdown is the
\* greatest per-bar drawdown.
C10_PeakMonotoneDrawdownBounded == []PeakAndDrawdown /\ [][PeakNeverFalls]_vars

\* C10 witness: a finished run whose nav rose above the initial capital and
\* later fell below its peak
C10_Witness ==
    /\ Running
    /\ pc = "done"
    /\ loop.peak > request.initial_capital
    /\ loop.nav < loop.peak
    /\ response.value.max_drawdown > 0

\* backtest::run returned a report for a non-empty series
Finished ==
    /\ Running
    /\ pc = "done"
    /\ response.kind = "ok"

\* C11: for a non-empty candle series the equity curve has one point per
\* candle, point i carries candle i's timestamp, and the first point's nav is
\* the initial capital; inside the loop the curve has one point per iteration
\* begun.
C11_EquityCurvePerCandle ==
    /\ (Running /\ pc = "loop") => Len(loop.equity_curve) = idx
    /\ Finished
       => /\ Len(response.value.equity_curve) = Len(request.candles)
          /\ \A k \in 1..Len(request.candles) :
                response.value.equity_curve[k].date = request.candles[k].timestamp
          /\ response.value.equity_curve[1].nav = request.initial_capital

\* C11 witness: a finished run of MaxBtCandles candles whose nav moved along
\* the curve
C11_Witness ==
    /\ Finished
    /\ Len(response.value.equity_curve) = MaxBtCandles
    /\ response.value.equity_curve[MaxBtCandles].nav # request.initial_capital

\* C12: for a non-empty candle series and a strategy identifier that is
\* neither "ema-crossover" nor "supertrend", run succeeds with no trade and an
\* equity curve whose nav is the initial capital at every point.
C12_UnrecognizedStrategyNoOp ==
    (/\ command = "backtest"
     /\ pc = "done"
     /\ request.candles # <<>>
     /\ request.strategy \notin {"ema-crossover", "supertrend"})
    => /\ response.kind = "ok"
       /\ response.value.total_trades = 0
       /\ response.value.trade_log = <<>>
       /\ Len(response.value.equity_curve) = Len(request.candles)
       /\ \A k \in 1..Len(response.value.equity_curve) :
             response.value.equity_curve[k].nav = request.initial_capital

\* C12 witness: a finished run of an unrecognized strategy over candles on
\* which "ema-crossover" trades
C12_Witness ==
    /\ Finished
    /\ request.strategy = "momentum"
    /\ run(BacktestInput([request EXCEPT !.strategy = "ema-crossover"],
                         request.candles, request.params)).value.total_trades > 0

(***************************************************************************)
(* Properties of the validator's size checks                               *)
(***************************************************************************)
\* the "walk_forward" request was answered
Validated ==
    /\ command = "walk_forward"
    /\ pc = "done"

\* every candle of the request closes at the same price
ConstantPrice ==
    \A k \in 1..Len(request.candles) : request.candles[k].close = request.candles[1].close

\* the request passes the validator's size conditions: 60 candles, 20 per
\* fold, and a fold that survives the minimum-size filter
PassesSizeChecks ==
    /\ Len(request.candles) >= MinCandles
    /\ Len(request.candles) \div NumFolds(request) >= MinFoldSize
    /\ \E fold \in 0..(NumFolds(request) - 1) : Retained(request, fold)

\* every key of the grid has a candidate value
GridHasValues == \A k \in DOMAIN request.param_grid : request.param_grid[k] # <<>>

\* C13: over a constant-price series that passes the size conditions (as 300
\* candles in 5 folds do), with a grid that has values, the validator succeeds
\* with zero out-of-sample trades in every fold, consistency_score 0 and
\* overfitting_score 0.
C13_ConstantPriceNoTrades ==
    (Validated /\ ConstantPrice /\ PassesSizeChecks /\ GridHasValues)
    => /\ response.kind = "ok"
       /\ \A k \in 1..Len(response.folds) : response.folds[k].out_sample_trades = 0
       /\ response.aggregate.total_out_sample_trades = 0
       /\ response.aggregate.consistency_score = 0
       /\ response.overfitting_score = 0

\* C13 witness: the answer to ExampleCandles candles of one price in five folds
C13_Witness ==
    /\ Validated
    /\ ConstantPrice
    /\ Len(request.candles) = ExampleCandles
    /\ NumFolds(request) = DefaultFolds
    /\ response.kind = "ok"
    /\ Len(response.folds) = DefaultFolds

\* the response is the error of line 63 or the error of line 71
SizeError(error) ==
    /\ response.kind = "err"
    /\ response.error = error

\* C14: the validator answers with an error, and no fold, when the series has
\* fewer than 60 candles or the candle count integer-divided by the fold count
\* is below 20; with at least 60 candles and at least 20 per fold it answers
\* with neither of the two errors.
C14_SizeErrors ==
    Validated
    => /\ Len(request.candles) < MinCandles
          => SizeError("Need at least 60 candles for walk-forward analysis")
       /\ (/\ Len(request.candles) >= MinCandles
           /\ Len(request.candles) \div NumFolds(request) < MinFoldSize)
          => SizeError("Not enough data for requested number of folds")
       /\ (/\ Len(request.candles) >= MinCandles
           /\ Len(request.candles) \div NumFolds(request) >= MinFoldSize)
          => /\ ~SizeError("Need at least 60 candles for walk-forward analysis")
             /\ ~SizeError("Not enough data for requested number of folds")

\* C14 witness: enough candles for the validator, too few for each fold
C14_Witness ==
    /\ Validated
    /\ Len(request.candles) >= MinCandles
    /\ SizeError("Not enough data for requested number of folds")

(***************************************************************************)
(* Properties of the simulator's report and its transitions                *)
(***************************************************************************)
\* C15: backtest::run over an empty candle sequence answers with an error
\* rather than a report.
C15_EmptyCandlesIsConfigError ==
    (/\ command = "backtest"
     /\ pc = "done"
     /\ request.candles = <<>>)
    => response.kind = "err"

\* the "risk" request was answered
Analyzed ==
    /\ command = "risk"
    /\ pc = "done"

\* C16: a report over an empty or single-trade log has Sharpe and Sortino
\* ratios of exactly 0, and a risk output over an empty or single-return series
\* has Sharpe, Sortino and Calmar ratios of exactly 0.
C16_FewSamplesRatiosZero ==
    /\ (Finished /\ response.value.total_trades <= 1)
       => /\ response.value.sharpe_ratio = 0
          /\ response.value.sortino_ratio = 0
    /\ (Analyzed /\ Len(request.returns) <= 1)
       => /\ response.value.sharpe_ratio = 0
          /\ response.value.sortino_ratio = 0
          /\ response.value.calmar_ratio = 0

\* C17: for a non-empty return series and a positive initial capital the
\* reported cvar_95 is at least the reported var_95, both read as signed loss
\* amounts (a negative amount is a gain); they are equal when the 5% tail
\* holds no return.
C17_TailMeanDominates ==
    (/\ Analyzed
     /\ request.returns # <<>>
     /\ request.initial_capital > 0)
    => /\ response.value.cvar_95 >= response.value.var_95
       /\ Len(request.returns) < TailDiv => response.value.cvar_95 = response.value.var_95

\* C17 witness: a series whose 5% tail holds a return, with a tail mean
\* strictly beyond the cutoff
C17_Witness ==
    /\ Analyzed
    /\ Len(request.returns) >= TailDiv
    /\ response.value.cvar_95 > response.value.var_95

\* C17 as stated: the magnitude of cvar_95 is at least the magnitude of var_95.
C17_MagnitudeDominates ==
    (/\ Analyzed
     /\ request.returns # <<>>
     /\ request.initial_capital > 0)
    => Abs(response.value.cvar_95) >= Abs(response.value.var_95)

\* the averages at bar i (0-based) of the request's candles, lines 84-85
ShortAt(i) == ema(SubSeq(request.candles, 1, i + 1), ShortPeriod)
LongAt(i) == ema(SubSeq(request.candles, 1, i + 1), LongPeriod)

\* the bar (0-based) of a timestamp of the model: candle k is stamped k
BarOf(timestamp) == timestamp - 1

\* the bars at which the run so far opened a position
EntryBars ==
    {BarOf(loop.trades[k].entry_time) : k \in 1..Len(loop.trades)}
    \cup (IF loop.position = None THEN {} ELSE {BarOf(loop.position[1].entry_time)})

\* the bars at which the run so far closed a position
ExitBars == {BarOf(loop.trades[k].exit_time) : k \in 1..Len(loop.trades)}

\* C18: a position is opened at bar i only when the short average crosses
\* above the long one there: short > long at bar i and short <= long at bar
\* i - 1.
C18_EntryOnlyOnCrossAbove ==
    Running
    => \A i \in EntryBars :
          /\ ShortAt(i) > LongAt(i)
          /\ ShortAt(i - 1) <= LongAt(i - 1)

\* C19: a position is closed at bar i only when the short average crosses
\* below the long one there: short < long at bar i and short >= long at bar
\* i - 1; so it is for the exit bar of every trade of the log.
C19_ExitOnlyOnCrossBelow ==
    /\ Running
       => \A i \in ExitBars :
             /\ ShortAt(i) < LongAt(i)
             /\ ShortAt(i - 1) >= LongAt(i - 1)
    /\ Finished
       => \A k \in 1..Len(response.value.trade_log) :
             /\ ShortAt(BarOf(response.value.trade_log[k].exit_time))
                  < LongAt(BarOf(response.value.trade_log[k].exit_time))
             /\ ShortAt(BarOf(response.value.trade_log[k].exit_time) - 1)
                  >= LongAt(BarOf(response.value.trade_log[k].exit_time) - 1)

\* C19 witness: a finished run that closed a position it had held over a bar
\* at which the averages were equal or the short one above
C19_Witness ==
    /\ Finished
    /\ \E k \in 1..Len(response.value.trade_log) :
          response.value.trade_log[k].exit_time > response.value.trade_log[k].entry_time + 1

\* floor(0.10 * nav / close) for the nav recorded at bar i and that bar's close
SizedAt(i) == loop.equity_curve[i + 1].nav \div (NotionalDiv * request.candles[i + 1].close)

\* C20: every trade of the log has the quantity floor(0.10 * nav at the entry
\* bar / close at the entry bar), its entry price being that close, and the
\* quantity is at least 1; a position is open only if its quantity is at
\* least 1.
C20_QuantityOnEntryBasis ==
    Running
    => /\ \A k \in 1..Len(loop.trades) :
             /\ loop.trades[k].entry_price
                  = request.candles[loop.trades[k].entry_time].close
             /\ loop.trades[k].qty = SizedAt(BarOf(loop.trades[k].entry_time))
             /\ loop.trades[k].qty >= 1
       /\ loop.position # None => SizedAt(BarOf(loop.position[1].entry_time)) >= 1
       /\ pc = "done" => response.value.trade_log = loop.trades

\* C20 witness: a finished run with a trade entered on a nav other than the
\* initial capital and closed at another price
C20_Witness ==
    /\ Finished
    /\ \E k \in 1..Len(loop.trades) :
          /\ loop.equity_curve[loop.trades[k].entry_time].nav # request.initial_capital
          /\ loop.trades[k].exit_price # loop.trades[k].entry_price

(***************************************************************************)
(* Properties of the simulator's accounting                                *)
(***************************************************************************)
\* the trade the step appended
Appended == loop'.trades[Len(loop'.trades)]

\* C21 at a step: an iteration appends a Trade exactly when it closes the
\* position, and then nav moves by that trade's PnL = (exit close - entry
\* price) * quantity; otherwise nav and the log stay as they are.
NavMovesOnExit ==
    (pc = "loop" /\ pc' = "loop")
    => IF loop.position # None /\ loop'.position = None
       THEN /\ loop'.trades = Append(loop.trades, Appended)
            /\ Appended.entry_price = loop.position[1].entry_price
            /\ Appended.exit_price = request.candles[idx + 1].close
            /\ Appended.exit_time = request.candles[idx + 1].timestamp
            /\ Appended.pnl = (Appended.exit_price - Appended.entry_price) * Appended.qty
            /\ loop'.nav = loop.nav + Appended.pnl
       ELSE /\ loop'.trades = loop.trades
            /\ loop'.nav = loop.nav

\* C21 at a state: nav is the initial capital plus the PnL of the trades so far
NavIsCapitalPlusPnl ==
    Running => loop.nav = request.initial_capital + SumSeq(Pnls(loop.trades))

\* C21: nav changes only on a bar where a position is closed, by that trade's
\* PnL, with one Trade appended on that bar; so the final nav is the initial
\* capital plus the sum of the PnL of the trades of the log.
C21_NavChangesOnlyOnExit == []NavIsCapitalPlusPnl /\ [][NavMovesOnExit]_vars

\* C21 witness: a finished run of two trades that left the nav changed
C21_Witness ==
    /\ Finished
    /\ Len(response.value.trade_log) >= 2
    /\ loop.nav # request.initial_capital
    /\ response.value.trade_log = loop.trades

(***************************************************************************)
(* Properties of the averaging windows                                     *)
(***************************************************************************)
\* the long window a ParameterSet asks for: its longWindow, 21 without one
LongWindowOf(params) ==
    IF "longWindow" \in DOMAIN params THEN params.longWindow ELSE LongPeriod

\* C22: the windows are those of the ParameterSet (9 and 21 by default), and
\* no transition is evaluated at a bar index below the long window: no
\* position is opened at a bar i < longWindow.
C22_WarmUpIsLongWindow ==
    Running => \A i \in EntryBars : i >= LongWindowOf(request.params)

(***************************************************************************)
(* Properties of the validator's folds                                     *)
(***************************************************************************)
\* the validator answered with folds
Folded ==
    /\ Validated
    /\ response.kind = "ok"

\* the folds whose range [fold_start, fold_end) holds the 0-based candle index i
FoldsHolding(i) ==
    {fold \in 0..(NumFolds(request) - 1) :
        FoldStart(request, fold) <= i /\ i < FoldEnd(request, fold)}

\* C23: the fold ranges are contiguous, in chronological order, do not overlap
\* and cover every candle index 0..n-1 once; every fold but the last has
\* floor(n / fold_count) candles and the last has the remainder as well.
C23_FoldsPartitionCandles ==
    Folded
    => LET n == Len(request.candles)
           fold_count == NumFolds(request)
       IN  /\ FoldStart(request, 0) = 0
           /\ \A fold \in 0..(fold_count - 2) :
                 /\ FoldEnd(request, fold) = FoldStart(request, fold + 1)
                 /\ Len(FoldCandles(request, fold)) = n \div fold_count
           /\ FoldEnd(request, fold_count - 1) = n
           /\ Len(FoldCandles(request, fold_count - 1)) = (n \div fold_count) + (n % fold_count)
           /\ \A i \in 0..(n - 1) : Cardinality(FoldsHolding(i)) = 1
           /\ \A k \in 1..Len(response.folds) :
                 /\ response.folds[k].fold \in 0..(fold_count - 1)
                 /\ k > 1 => response.folds[k - 1].fold < response.folds[k].fold

\* C23 witness: three folds answered for a series whose length three does
\* not divide
C23_Witness ==
    /\ Folded
    /\ NumFolds(request) >= 3
    /\ Len(request.candles) % NumFolds(request) # 0
    /\ Len(response.folds) = NumFolds(request)

\* floor(len * in_sample_ratio) for the fold's length, the ratio in percent
FloorOfRatio(fold) == (Len(FoldCandles(request, fold)) * IsRatio(request)) \div 100

\* the folds with at least 15 candles before the split and 5 from it on
LargeEnough ==
    {fold \in 0..(NumFolds(request) - 1) :
        /\ FloorOfRatio(fold) >= MinInSample
        /\ Len(FoldCandles(request, fold)) - FloorOfRatio(fold) >= MinOutSample}

\* the request passes the checks made before the folds are cut
Admitted ==
    /\ Validated
    /\ Len(request.candles) >= MinCandles
    /\ Len(request.candles) \div NumFolds(request) >= MinFoldSize
    /\ GridHasValues

OptimizedInSample(fold) ==
    Optimize([request EXCEPT !.candles = InSample(request, fold)], hash_order)

\* C25: the in-sample winner of each answered fold is the best_params that
\* optimize gives for the fold's in-sample candles with the same strategy,
\* capital, grid and generation order, and the fold's in_sample_sharpe is that
\* optimize call's best_sharpe.
C25_InSampleWinnerIsOptimizeBest ==
    Folded
    => \A k \in 1..Len(response.folds) :
          /\ OptimizedInSample(response.folds[k].fold).kind = "ok"
          /\ response.folds[k].best_params
                = OptimizedInSample(response.folds[k].fold).best_params
          /\ response.folds[k].in_sample_sharpe
                = OptimizedInSample(response.folds[k].fold).best_sharpe

\* C25 witness: a fold whose in-sample simulations traded, over a grid of
\* several ParameterSets
C25_Witness ==
    /\ Folded
    /\ \E k \in 1..Len(response.folds) :
          /\ response.folds[k].in_sample_sharpe # 0
          /\ Len(OptimizedInSample(response.folds[k].fold).all_results) > 1

\* the folds of the answer that selected the ParameterSet p
Selecting(p) == {k \in 1..Len(response.folds) : response.folds[k].best_params = p}

RECURSIVE SharpeSum(_)
\* the sum of the out-of-sample Sharpes of a set of answered folds
SharpeSum(ks) ==
    IF ks = {} THEN 0
    ELSE LET k == CHOOSE x \in ks : TRUE
         IN  response.folds[k].out_sample_sharpe + SharpeSum(ks \ {k})

C27_TradesDoNotOverlap ==
    Running
    => /\ \A k \in 1..Len(loop.trades) :
             /\ BarOf(loop.trades[k].entry_time) < BarOf(loop.trades[k].exit_time)
             /\ BarOf(loop.trades[k].exit_time) < idx
             /\ k > 1 => BarOf(loop.trades[k - 1].exit_time) < BarOf(loop.trades[k].entry_time)
       /\ Len(loop.position) <= 1
       /\ loop.position # None
          => /\ BarOf(loop.position[1].entry_time) < idx
             /\ \A k \in 1..Len(loop.trades) :
                   BarOf(loop.trades[k].exit_time) < BarOf(loop.position[1].entry_time)

\* C27 witness: a position opened on the bar after the one that closed a trade
C27_Witness ==
    /\ Running
    /\ Len(loop.trades) >= 1
    /\ loop.position # None
    /\ BarOf(loop.position[1].entry_time)
          = BarOf(loop.trades[Len(loop.trades)].exit_time) + 1

(***************************************************************************)
(* Properties of the searches over a grid                                  *)
(***************************************************************************)
\* the combination made of the first candidate value of every key of the grid
FirstCandidates(grid) == [k \in DOMAIN grid |-> grid[k][1]]

\* the metrics of a leaderboard entry: the entry without its ParameterSet
MetricsOf(entry) == [entry EXCEPT !.params = <<>>]

\* C28: for a fixed strategy, capital and candle series all leaderboard
\* entries of optimize carry the same metrics, and best_params, in optimize
\* and for each fold of the validator, is the combination of the first
\* candidate of every key, whatever the candles and whatever the order in
\* which the grid's keys are iterated.
C28_ParametersHaveNoEffect ==
    /\ (Optimized /\ response.kind = "ok")
       => /\ \A j, k \in 1..Len(response.all_results) :
                MetricsOf(response.all_results[j]) = MetricsOf(response.all_results[k])
          /\ response.best_params = FirstCandidates(request.param_grid)
          /\ twin_response.kind = "ok"
          /\ twin_response.best_params = FirstCandidates(request.param_grid)
    /\ Folded
       => \A k \in 1..Len(response.folds) :
             response.folds[k].best_params = FirstCandidates(request.param_grid)

\* C28 witness: an optimize over a grid of two keys with several candidates
\* each, answered for both key orders over candles that trade
C28_Witness ==
    /\ Optimized
    /\ response.kind = "ok"
    /\ Len(response.all_results) = MaxValues * MaxValues
    /\ twin.keys # hash_order
    /\ response.all_results[1].total_trades > 0

\* C28 reached by the validator: answered folds, with the grid's keys iterated
\* b first
C28_WitnessFolds ==
    /\ Folded
    /\ hash_order = <<"b", "a">>
    /\ Len(response.folds) >= 2

(***************************************************************************)
(* Properties of the out-of-sample figures                                 *)
(***************************************************************************)
\* the simulation of an answered fold's out-of-sample candles with the
\* ParameterSet it selected
OutOfSampleRun(fold_result) ==
    run(BacktestInput(request, OutSample(request, fold_result.fold), fold_result.best_params))

\* C29: each answered fold's out_sample_pnl is the sum of the PnL of all
\* trades of its out-of-sample simulation, a trade closed on the last
\* out-of-sample candle included, and total_out_sample_pnl is the sum of the
\* folds' out_sample_pnl.
C29_OutSamplePnlIsRealizedPnl ==
    Folded
    => /\ \A k \in 1..Len(response.folds) :
             response.folds[k].out_sample_pnl
                = SumSeq(Pnls(OutOfSampleRun(response.folds[k]).value.trade_log))
       /\ response.aggregate.total_out_sample_pnl
             = SumSeq([k \in 1..Len(response.folds) |-> response.folds[k].out_sample_pnl])

\* the fewest candles of a segment in which a trade can be entered and closed:
\* the entry at the first decided bar, index 21, the exit one bar later
FewestToTrade == WarmUp + 2

\* the out-of-sample candles of a fold: those from floor(len * ratio) on
OutSampleLength(fold) == Len(FoldCandles(request, fold)) - FloorOfRatio(fold)

\* C30: a simulation of fewer than 23 candles reports no trade and a Sharpe of
\* 0; so every answered fold with fewer than 23 out-of-sample candles has
\* out_sample_trades = 0 and out_sample_sharpe = 0, and no such fold counts
\* as a positive fold: consistency_score, in percent, is at most the share of
\* the folds with 23 out-of-sample candles or more.
C30_ShortSegmentsDoNotTrade ==
    /\ (Finished /\ Len(request.candles) < FewestToTrade)
       => /\ response.value.total_trades = 0
          /\ response.value.trade_log = <<>>
          /\ response.value.sharpe_ratio = 0
    /\ Folded
       => /\ \A k \in 1..Len(response.folds) :
                OutSampleLength(response.folds[k].fold) < FewestToTrade
                => /\ response.folds[k].out_sample_trades = 0
                   /\ response.folds[k].out_sample_sharpe = 0
          /\ response.aggregate.consistency_score
                <= RoundDiv(100 * Cardinality({k \in 1..Len(response.folds) :
                                OutSampleLength(response.folds[k].fold) >= FewestToTrade}),
                            Len(response.folds))

\* C30 witness: an answered fold of 22 out-of-sample candles whose last
\* candle closes above the others; with one candle more the segment trades
C30_Witness ==
    /\ Folded
    /\ \E k \in 1..Len(response.folds) :
          /\ OutSampleLength(response.folds[k].fold) = FewestToTrade - 1
          /\ OutSample(request, response.folds[k].fold)[FewestToTrade - 1].close = MaxPrice
          /\ response.folds[k].out_sample_trades = 0

=============================================================================
